---- MODULE Spec2Model ----
(***************************************************************************)
(* Model of the team-allocation dashboard of src/App_Gantt.py: the loaders *)
(* (DataLoader), the roster join, the availability filter and the conflict *)
(* detector (DataProcessor).  A DataFrame is a sequence of records; the    *)
(* position of a row in the sequence is its index label.                   *)
(***************************************************************************)
EXTENDS Integers, Sequences, FiniteSets, TLC

VARIABLES
    pc,              \* position in the pipeline
    equipe_file,     \* sheet 'Equipe' of Planejamento Estaleiro.xlsx
    plan_file,       \* sheet 'Planejamento IED' of Planejamento Estaleiro.xlsx
    ferias_file,     \* Ferias.xlsx
    geral_file,      \* Planejamento Geral.xlsx
    equipe_df,       \* Optional[DataFrame] of load_estaleiro_data: the roster
    plan_df,         \* Optional[DataFrame] of load_estaleiro_data
    ferias_df,       \* Optional[DataFrame] of load_ferias_data
    geral_df,        \* Optional[DataFrame] of load_planejamento_geral
    combined_df,     \* combined assignment set
    unique_members,  \* ordered member list
    d_inicio,        \* analysis window start
    d_fim,           \* analysis window end
    sel_discs,       \* disciplines selected in the sidebar
    sel_projs,       \* projects selected in the sidebar
    only_available,  \* checkbox 'Apenas Disponiveis'
    conflicts,       \* rows selected by conflict_mask (local of the detector)
    conflicts_df,    \* DataFrame returned by detect_conflicts_vectorized
    conflitos_texto, \* conflict lines returned by detectar_conflitos
    available,       \* DataFrame returned by get_available_members
    st_errors        \* messages emitted with st.error

\* the spreadsheets, what the loaders returned, what the join returned, the
\* sidebar inputs (the analysis window among them), what the detector and the
\* filter returned
files == <<equipe_file, plan_file, ferias_file, geral_file>>
loaded == <<equipe_df, plan_df, ferias_df, geral_df>>
joined == <<combined_df, unique_members>>
sidebar == <<sel_discs, sel_projs, only_available>>
window == <<d_inicio, d_fim, sidebar>>
detected == <<conflicts, conflicts_df, conflitos_texto>>

vars == <<pc, files, loaded, joined, window, detected, available, st_errors>>

----------------------------------------------------------------------------
(* Bounds of the model *)

\* last instant of the modelled period (instants are 0..LastInstant)
LastInstant == 2

\* largest table handed to the detector on its own
MaxRows == 3

\* largest table handed to the availability filter on its own
MaxAvailRows == 2

\* largest roster
MaxMembers == 2

\* most rows in the three schedule sheets together
MaxRawRows == 2

\* largest roster handed to the join on its own
MaxOrderRows == 3

\* largest roster and largest general schedule of a whole run of an
\* application
MaxRunMembers == 2
MaxRunRows == 2

\* instants distinguished inside one calendar day: 0 is midnight
TimesOfDay == 0 .. 1

TicksPerDay == Cardinality(TimesOfDay)

----------------------------------------------------------------------------
(* Values *)

\* pd.NaT, what pd.to_datetime(errors='coerce') gives for a cell it cannot parse
NaT == -1

\* a missing Matricula (NaN)
NoId == 0

\* a missing string cell (NaN / None)
NaN == "NaN"

\* a pd.Timestamp: calendar day and instant of that day
Timestamp(day, tod) == day * TicksPerDay + tod

\* the timestamps of the modelled period
Stamps == 0 .. LastInstant

Dates == Stamps \cup {NaT}

\* Timestamp.date() / the day that strftime('%d/%m') prints
Date(ts) == ts \div TicksPerDay

\* pd.Timestamp(date): midnight of that day
Midnight(day) == Timestamp(day, 0)

\* comparisons of datetime columns: any comparison with NaT is False
GT(a, b) == a # NaT /\ b # NaT /\ a > b
GE(a, b) == a # NaT /\ b # NaT /\ a >= b
LE(a, b) == a # NaT /\ b # NaT /\ a <= b

\* keys of Config.COLOR_MAP, the activity labels
COLOR_MAP_KEYS == <<"Estaleiro", "Ferias", "Folga", "Treinamento",
                    "Embarque", "Workshop", "Visita Tecnica">>

\* Config.DISCIPLINA_ORDER
DISCIPLINA_ORDER == <<"ELET", "INST", "MEC">>

\* Optional[DataFrame]
None == [none |-> TRUE, rows |-> <<>>]
Frame(rows) == [none |-> FALSE, rows |-> rows]

----------------------------------------------------------------------------
(* Spreadsheet cells and DataLoader *)

\* a date cell of a sheet: a date, a text that is no date, or nothing
DateCell(ts) == [kind |-> "date", value |-> ts]
TextCell == [kind |-> "text", value |-> NaT]
EmptyCell == [kind |-> "empty", value |-> NaT]

\* pd.isna of a raw cell
isna(cell) == cell.kind = "empty"

\* a conversion that drops nothing but reads a text as the first instant
to_datetime_text_as_epoch(cell) ==
    IF cell.kind = "date" THEN cell.value
    ELSE IF cell.kind = "text" THEN 0 ELSE NaT

\* pd.to_datetime(cell, errors='coerce')
to_datetime_coerce(cell) ==
    IF cell.kind = "date" THEN cell.value ELSE NaT

\* DataLoader._normalize_dates(df, ['Inicio', 'Termino'])
normalize_dates(rows) ==
    [k \in DOMAIN rows |->
        [rows[k] EXCEPT !.Inicio = to_datetime_coerce(@),
                        !.Termino = to_datetime_coerce(@)]]

\* a sheet that can be read, a file that is not there, a file that is there
\* but cannot be read as expected (no such sheet, no such columns)
Sheet(rows) == [ok |-> TRUE, found |-> TRUE, rows |-> rows]
NoFile == [ok |-> FALSE, found |-> FALSE, rows |-> <<>>]
Malformed == [ok |-> FALSE, found |-> TRUE, rows |-> <<>>]

RECURSIVE Flatten(_)
\* pd.concat of a list of frames, in list order
Flatten(frames) ==
    IF frames = <<>> THEN <<>> ELSE Head(frames) \o Flatten(Tail(frames))

\* equipe_df.dropna(subset=['Experiencia'])
active_roster(rows) ==
    LET present(r) == r.Experiencia # NaN IN SelectSeq(rows, present)

\* the rows that plan_df.merge(equipe_df[...], on='Nome', how='left') makes of
\* one schedule row: one per roster row of that name, in roster order, or one
\* with the roster columns missing when no roster row has that name
merge_plan_row(p, equipe) ==
    LET same(r) == r.Nome = p.Nome
        hits == SelectSeq(equipe, same)
    IN IF hits = <<>>
       THEN <<[Nome |-> p.Nome, Inicio |-> p.Inicio, Termino |-> p.Termino,
               Matricula |-> NoId, Disciplina |-> NaN, Funcao |-> NaN,
               Projeto |-> NaN, Tipo |-> "Estaleiro"]>>
       ELSE [k \in DOMAIN hits |->
                [Nome |-> p.Nome, Inicio |-> p.Inicio, Termino |-> p.Termino,
                 Matricula |-> hits[k].Matricula,
                 Disciplina |-> hits[k].Disciplina,
                 Funcao |-> hits[k].Funcao,
                 Projeto |-> hits[k].Projeto, Tipo |-> "Estaleiro"]]

\* the frame plan_df of load_estaleiro_data
estaleiro_plan(plan_rows, equipe) ==
    LET named(r) == r.Nome # NaN
        plan == normalize_dates(SelectSeq(plan_rows, named))
    IN Flatten([k \in DOMAIN plan |-> merge_plan_row(plan[k], equipe)])

\* the rows of one vacation row after pd.wide_to_long: one per instalment
ferias_long_row(r) ==
    [j \in 1 .. 3 |->
        [Matricula |-> r.Matricula, Inicio |-> r.Parcelas[j][1],
         Termino |-> r.Parcelas[j][2], Tipo |-> "Ferias"]]

\* a loader that keeps the instalments without a start cell
ferias_long_keep_absent(rows) ==
    normalize_dates(Flatten([k \in DOMAIN rows |-> ferias_long_row(rows[k])]))

\* the frame of load_ferias_data: reshape, drop the instalments without a
\* start cell, then convert the dates
ferias_long(rows) ==
    LET started(r) == ~ isna(r.Inicio)
        long == Flatten([k \in DOMAIN rows |-> ferias_long_row(rows[k])])
    IN normalize_dates(SelectSeq(long, started))

\* the frame of load_planejamento_geral
geral_frame(rows) == normalize_dates(rows)

----------------------------------------------------------------------------
(* DataProcessor.prepare_combined_data *)

\* the elements of a sequence
Range(f) == {f[k] : k \in DOMAIN f}

\* set(equipe_df['Matricula'])
matriculas_validas(equipe) == {equipe[k].Matricula : k \in DOMAIN equipe}

\* a filter that lets every row through
filter_source_keep_all(df, equipe) ==
    [k \in DOMAIN df.rows |->
        [Matricula |-> df.rows[k].Matricula,
         Inicio |-> df.rows[k].Inicio,
         Termino |-> df.rows[k].Termino,
         Tipo |-> df.rows[k].Tipo,
         Nome |-> IF "Nome" \in DOMAIN df.rows[k]
                  THEN df.rows[k].Nome ELSE NaN]]

\* what one source contributes to valid_dfs: nothing when it is None or
\* empty, else its rows whose Matricula is in the roster, cut to the columns
\* Matricula, Inicio, Termino, Tipo and Nome (a source without the column
\* Nome gets missing names in the concatenation)
filter_source(df, equipe) ==
    LET known(r) == r.Matricula \in matriculas_validas(equipe)
        kept == SelectSeq(df.rows, known)
    IN [k \in DOMAIN kept |->
           [Matricula |-> kept[k].Matricula,
            Inicio |-> kept[k].Inicio,
            Termino |-> kept[k].Termino,
            Tipo |-> kept[k].Tipo,
            Nome |-> IF "Nome" \in DOMAIN kept[k] THEN kept[k].Nome ELSE NaN]]

\* pd.concat(valid_dfs, ignore_index=True), or the empty frame
concat_sources(equipe, dfs_eventos) ==
    Flatten([k \in DOMAIN dfs_eventos |->
                IF dfs_eventos[k].none \/ dfs_eventos[k].rows = <<>>
                THEN <<>>
                ELSE filter_source(dfs_eventos[k], equipe)])

\* astype(disciplina_type): a label outside DISCIPLINA_ORDER becomes missing
as_disciplina_type(d) == IF d \in Range(DISCIPLINA_ORDER) THEN d ELSE NaN

\* one assignment with the columns of one roster row
enrich(c, r) ==
    [Matricula |-> c.Matricula, Inicio |-> c.Inicio, Termino |-> c.Termino,
     Tipo |-> c.Tipo,
     Nome |-> IF c.Nome # NaN THEN c.Nome ELSE r.Nome,
     Disciplina |-> as_disciplina_type(r.Disciplina),
     Funcao |-> r.Funcao, Projeto |-> r.Projeto]

\* the rows that combined.merge(equipe_df[...], on='Matricula', how='left')
\* makes of one assignment: one per roster row with that Matricula (a missing
\* one equals a missing one), in roster order, or one with the roster columns
\* missing when no roster row has that Matricula
merge_row(c, equipe) ==
    LET same(r) == r.Matricula = c.Matricula
        hits == SelectSeq(equipe, same)
    IN IF hits = <<>>
       THEN <<[Matricula |-> c.Matricula, Inicio |-> c.Inicio,
               Termino |-> c.Termino, Tipo |-> c.Tipo, Nome |-> c.Nome,
               Disciplina |-> NaN, Funcao |-> NaN, Projeto |-> NaN]>>
       ELSE [k \in DOMAIN hits |-> enrich(c, hits[k])]

\* a join that keeps the rows of the run before
combined_data_appending(equipe, dfs_eventos) ==
    LET combined == concat_sources(equipe, dfs_eventos)
    IN combined_df \o
       Flatten([k \in DOMAIN combined |-> merge_row(combined[k], equipe)])

\* the frame combined of prepare_combined_data
combined_data(equipe, dfs_eventos) ==
    LET combined == concat_sources(equipe, dfs_eventos)
    IN Flatten([k \in DOMAIN combined |-> merge_row(combined[k], equipe)])

\* strings of the model in ascending order
Lexicon == <<"A", "B", "C", "ELET", "Engenheiro", "INST", "MEC", "P-80",
             "P-82", "Senior", "Tecnico">>

StrRank(x) == CHOOSE k \in DOMAIN Lexicon : Lexicon[k] = x

\* code of a label of the ordered categorical disciplina_type
DiscRank(d) == CHOOSE k \in DOMAIN DISCIPLINA_ORDER : DISCIPLINA_ORDER[k] = d

\* an order of a string column that puts the missing values first
StrLess_missing_first(x, y) == y # NaN /\ (x = NaN \/ StrRank(x) < StrRank(y))

\* ascending order of a string column and of the Disciplina column, missing
\* values last
StrLess(x, y) == x # NaN /\ (y = NaN \/ StrRank(x) < StrRank(y))
DiscLess(x, y) == x # NaN /\ (y = NaN \/ DiscRank(x) < DiscRank(y))

\* row i is placed before row j by
\* sort_values(by=['Disciplina', 'Funcao', 'Projeto', 'Nome'])
MemberBefore(t, i, j) ==
    \/ DiscLess(t[i].Disciplina, t[j].Disciplina)
    \/ /\ t[i].Disciplina = t[j].Disciplina
       /\ \/ StrLess(t[i].Funcao, t[j].Funcao)
          \/ /\ t[i].Funcao = t[j].Funcao
             /\ \/ StrLess(t[i].Projeto, t[j].Projeto)
                \/ /\ t[i].Projeto = t[j].Projeto
                   /\ \/ StrLess(t[i].Nome, t[j].Nome)
                      \/ t[i].Nome = t[j].Nome /\ i < j

\* a member list without the employees whose discipline is not listed
ordered_members_listed(equipe) ==
    LET listed(r) == r.Disciplina \in Range(DISCIPLINA_ORDER)
        t == SelectSeq(equipe, listed)
    IN [k \in DOMAIN t |->
           t[CHOOSE i \in DOMAIN t :
                 Cardinality({j \in DOMAIN t : MemberBefore(t, j, i)}) = k - 1]]

\* the frame unique_members of prepare_combined_data
ordered_members(equipe) ==
    LET t == [k \in DOMAIN equipe |->
                 [equipe[k] EXCEPT !.Disciplina = as_disciplina_type(@)]]
    IN [k \in DOMAIN t |->
           t[CHOOSE i \in DOMAIN t :
                 Cardinality({j \in DOMAIN t : MemberBefore(t, j, i)}) = k - 1]]

----------------------------------------------------------------------------
(* DataProcessor.get_available_members *)

\* a window that excludes its first instant
mask_periodo_open(row, start_date, end_date) ==
    LE(row.Inicio, end_date) /\ GT(row.Termino, start_date)

\* mask_periodo of one row
mask_periodo(row, start_date, end_date) ==
    LE(row.Inicio, end_date) /\ GE(row.Termino, start_date)

ocupados_ids(combined, start_date, end_date) ==
    {combined[i].Matricula :
        i \in {k \in DOMAIN combined :
                   mask_periodo(combined[k], start_date, end_date)}}

\* a filter that returns nobody when there is no assignment at all
get_available_members_nobody(equipe, combined, start_date, end_date) ==
    IF combined = <<>>
    THEN <<>>
    ELSE LET occ == ocupados_ids(combined, start_date, end_date)
             keep(r) == r.Matricula \notin occ
         IN SelectSeq(equipe, keep)

get_available_members(equipe, combined, start_date, end_date) ==
    IF combined = <<>>
    THEN equipe
    ELSE LET occ == ocupados_ids(combined, start_date, end_date)
             keep(r) == r.Matricula \notin occ
         IN SelectSeq(equipe, keep)

----------------------------------------------------------------------------
(* DataProcessor.detect_conflicts_vectorized *)

\* an order of the dates that puts the missing ones first
DateLess_missing_first(x, y) == y # NaT /\ (x = NaT \/ x < y)

\* ascending order of a key column, missing values last
IdLess(x, y) == x # NoId /\ (y = NoId \/ x < y)
DateLess(x, y) == x # NaT /\ (y = NaT \/ x < y)

\* row i is placed before row j by sort_values(by=['Matricula', 'Inicio']):
\* rows with equal keys keep their relative order
SortsBefore(t, i, j) ==
    \/ IdLess(t[i].Matricula, t[j].Matricula)
    \/ /\ t[i].Matricula = t[j].Matricula
       /\ DateLess(t[i].Inicio, t[j].Inicio)
    \/ /\ t[i].Matricula = t[j].Matricula
       /\ t[i].Inicio = t[j].Inicio
       /\ i < j

\* a sort that forgets the start date
sort_by_matricula_only(t) ==
    [k \in 1 .. Len(t) |->
        CHOOSE i \in 1 .. Len(t) :
            Cardinality({j \in 1 .. Len(t) :
                \/ IdLess(t[j].Matricula, t[i].Matricula)
                \/ t[j].Matricula = t[i].Matricula /\ j < i}) = k - 1]

\* index labels of t in sorted order
sort_values(t) ==
    [k \in 1 .. Len(t) |->
        CHOOSE i \in 1 .. Len(t) :
            Cardinality({j \in 1 .. Len(t) : SortsBefore(t, j, i)}) = k - 1]

\* a shift that takes the next row whoever it belongs to
HasNext_across_groups(t, ord, k) ==
    k < Len(ord) /\ t[ord[k]].Matricula # NoId

\* a shift that runs over the end of a group
HasNext_ungrouped(t, ord, k) == k < Len(ord)

\* groupby('Matricula')[col].shift(-1) at sorted position k takes the value
\* of the next row of the same group: there is none at the end of a group
\* and for rows whose group key is missing
HasNext(t, ord, k) ==
    /\ k < Len(ord)
    /\ t[ord[k]].Matricula # NoId
    /\ t[ord[k + 1]].Matricula = t[ord[k]].Matricula

\* the sorted frame with the columns Next_Inicio and Next_Tipo
shifted(t, ord) ==
    [k \in 1 .. Len(t) |->
        LET r == t[ord[k]]
            h == HasNext(t, ord, k)
        IN [idx |-> ord[k],
            Matricula |-> r.Matricula,
            Nome |-> r.Nome,
            Inicio |-> r.Inicio,
            Termino |-> r.Termino,
            Tipo |-> r.Tipo,
            Next_Inicio |-> IF h THEN t[ord[k + 1]].Inicio ELSE NaT,
            Next_Tipo |-> IF h THEN t[ord[k + 1]].Tipo ELSE NaN]]

\* a mask that passes over two assignments starting together
conflict_mask_later_start(row) ==
    /\ GT(row.Termino, row.Next_Inicio)
    /\ row.Next_Inicio # NaT
    /\ row.Inicio # row.Next_Inicio

\* a mask that counts a hand-over at the same instant
conflict_mask_ge(row) ==
    GE(row.Termino, row.Next_Inicio) /\ row.Next_Inicio # NaT

conflict_mask(row) ==
    GT(row.Termino, row.Next_Inicio) /\ row.Next_Inicio # NaT

\* df[conflict_mask]; nothing is computed for an empty frame
conflict_rows(t) ==
    IF t = <<>>
    THEN <<>>
    ELSE SelectSeq(shifted(t, sort_values(t)), conflict_mask)

\* one output line per selected row
saida(rows) ==
    [k \in 1 .. Len(rows) |->
        [Nome |-> rows[k].Nome,
         Conflito |-> <<rows[k].Tipo, Date(rows[k].Termino),
                        rows[k].Next_Tipo, Date(rows[k].Next_Inicio)>>]]

detect_conflicts_vectorized ==
    /\ pc = "prepared"
    /\ \E rows \in {conflict_rows(combined_df)} :
          /\ conflicts' = rows
          /\ conflicts_df' = saida(rows)
    /\ UNCHANGED conflitos_texto
    /\ pc' = "detected"
    /\ UNCHANGED <<files, loaded, joined, window, available, st_errors>>

----------------------------------------------------------------------------
(* detectar_conflitos, the pairwise detector of the first application *)

RECURSIVE unique(_)
\* Series.unique(): the distinct values in order of first appearance
unique(column) ==
    IF column = <<>>
    THEN <<>>
    ELSE LET front == unique(SubSeq(column, 1, Len(column) - 1))
             last == column[Len(column)]
         IN IF \E k \in DOMAIN front : front[k] = last
            THEN front
            ELSE Append(front, last)

\* combined_df[combined_df['Matricula'] == matricula]: a missing id equals
\* nothing
eventos_de(combined, matricula) ==
    LET mesma(r) == matricula # NoId /\ r.Matricula = matricula
    IN SelectSeq(combined, mesma)

\* the overlap test of a pair of events: both bounds count
sobrepoe(evento1, evento2) ==
    /\ LE(evento1.Inicio, evento2.Termino)
    /\ GE(evento1.Termino, evento2.Inicio)

\* the pairs (i, j), i < j, of overlapping events
pares_em_conflito(eventos) ==
    {p \in (DOMAIN eventos) \X (DOMAIN eventos) :
        p[1] < p[2] /\ sobrepoe(eventos[p[1]], eventos[p[2]])}

\* loops that run to their end and keep the last pair they find
ultimo_par(eventos) ==
    CHOOSE p \in pares_em_conflito(eventos) :
        \A q \in pares_em_conflito(eventos) :
            q[1] < p[1] \/ (q[1] = p[1] /\ q[2] <= p[2])

\* the pair at which the two loops stop: the first in the order of the loops
primeiro_par(eventos) ==
    CHOOSE p \in pares_em_conflito(eventos) :
        \A q \in pares_em_conflito(eventos) :
            p[1] < q[1] \/ (p[1] = q[1] /\ p[2] <= q[2])

\* the text of one conflict
linha(nome, evento1, evento2) ==
    [Nome |-> nome,
     Conflito |-> <<evento1.Tipo, Date(evento1.Inicio), Date(evento1.Termino),
                    evento2.Tipo, Date(evento2.Inicio), Date(evento2.Termino)>>]

\* detectar_conflitos(combined_df): the conflict lines, none for a person
\* with at most one event
detectar_conflitos(combined) ==
    LET matriculas ==
            unique([k \in DOMAIN combined |-> combined[k].Matricula])
    IN Flatten([k \in DOMAIN matriculas |->
           LET eventos == eventos_de(combined, matriculas[k])
           IN IF Len(eventos) <= 1 \/ pares_em_conflito(eventos) = {}
              THEN <<>>
              ELSE LET p == primeiro_par(eventos)
                   IN <<linha(eventos[1].Nome, eventos[p[1]],
                              eventos[p[2]])>>])

----------------------------------------------------------------------------
(* Inputs of the stand-alone runs *)

EmployeeIds == {1, 2}

\* name of the roster employee with this id
NomeOf(id) == IF id = 1 THEN "A" ELSE IF id = 2 THEN "B" ELSE NaN

\* a roster row
Employee(id, nome, disciplina, funcao, projeto, experiencia) ==
    [Disciplina |-> disciplina, Matricula |-> id, Funcao |-> funcao,
     Projeto |-> projeto, Experiencia |-> experiencia, Nome |-> nome]

\* an enriched assignment; the activity label of a row is the one of its
\* position, so that a label names one row of the table
Assignment(i, m, s, e) ==
    [Matricula |-> m, Nome |-> NomeOf(m), Inicio |-> s, Termino |-> e,
     Tipo |-> COLOR_MAP_KEYS[i]]

\* nothing loaded, nothing computed
Blank ==
    /\ equipe_file = NoFile /\ plan_file = NoFile
    /\ ferias_file = NoFile /\ geral_file = NoFile
    /\ equipe_df = Frame(<<>>)
    /\ plan_df = None /\ ferias_df = None /\ geral_df = None
    /\ combined_df = <<>>
    /\ unique_members = <<>>
    /\ d_inicio = NaT /\ d_fim = NaT
    /\ sel_discs = {} /\ sel_projs = {} /\ only_available = FALSE
    /\ conflicts = <<>> /\ conflicts_df = <<>> /\ conflitos_texto = <<>>
    /\ available = <<>>
    /\ st_errors = <<>>

\* the caller puts one more assignment in the table it will pass
caller_adds_assignment(bound) ==
    /\ pc = "prepared"
    /\ Len(combined_df) < bound
    /\ \E m \in EmployeeIds, s \in Dates, e \in Dates :
          combined_df' =
              Append(combined_df, Assignment(Len(combined_df) + 1, m, s, e))
    /\ UNCHANGED <<pc, files, loaded, unique_members, window, detected,
                   available, st_errors>>

----------------------------------------------------------------------------
(* The detector on its own: every table of at most MaxRows assignments *)

InitDetect == pc = "prepared" /\ Blank

\* a call detectar_conflitos(combined_df)
call_detectar_conflitos ==
    /\ pc = "prepared"
    /\ conflitos_texto' = detectar_conflitos(combined_df)
    /\ pc' = "legacy_detected"
    /\ UNCHANGED <<files, loaded, joined, window, conflicts, conflicts_df,
                   available, st_errors>>

NextDetect ==
    \/ caller_adds_assignment(MaxRows)
    \/ detect_conflicts_vectorized
    \/ call_detectar_conflitos

SpecDetect == InitDetect /\ [][NextDetect]_vars

----------------------------------------------------------------------------
(* The availability filter on its own: every roster of at most MaxMembers  *)
(* rows, every table of at most MaxAvailRows assignments, every window     *)

\* the caller puts one more employee in the roster it will pass
caller_adds_member ==
    /\ pc = "prepared"
    /\ Len(equipe_df.rows) < MaxMembers
    /\ \E m \in EmployeeIds :
          equipe_df' =
              Frame(Append(equipe_df.rows,
                           Employee(m, NomeOf(m), "ELET", "Tecnico", "P-80",
                                    "Senior")))
    /\ UNCHANGED <<pc, files, plan_df, ferias_df, geral_df, joined, window,
                   detected, available, st_errors>>

\* a call get_available_members(equipe_df, combined_df, start_date, end_date)
call_get_available_members ==
    /\ pc = "prepared"
    /\ \E start_date \in Stamps, end_date \in Stamps :
          /\ d_inicio' = start_date
          /\ d_fim' = end_date
          /\ available' =
                get_available_members(equipe_df.rows, combined_df,
                                      start_date, end_date)
    /\ pc' = "filtered"
    /\ UNCHANGED <<files, loaded, joined, sidebar, detected, st_errors>>

InitAvail == pc = "prepared" /\ Blank

NextAvail ==
    \/ caller_adds_member
    \/ caller_adds_assignment(MaxAvailRows)
    \/ call_get_available_members

SpecAvail == InitAvail /\ [][NextAvail]_vars

----------------------------------------------------------------------------
(* The join on its own: every roster of at most MaxOrderRows rows, no      *)
(* schedule source                                                          *)

\* the caller puts one more employee, with any sort keys, in the roster it
\* will pass; the Matricula of a row is its position
caller_adds_roster_row ==
    /\ pc = "loaded"
    /\ Len(equipe_df.rows) < MaxOrderRows
    /\ \E d \in {"MEC", "ELET", "C", NaN},
          f \in {"Tecnico", "Engenheiro", NaN},
          p \in {"P-80", NaN},
          n \in {"B", "A"} :
          equipe_df' =
              Frame(Append(equipe_df.rows,
                           Employee(Len(equipe_df.rows) + 1, n, d, f, p,
                                    "Senior")))
    /\ UNCHANGED <<pc, files, plan_df, ferias_df, geral_df, joined, window,
                   detected, available, st_errors>>

\* a call prepare_combined_data(equipe_df, [plan_df, ferias_df, geral_df])
call_prepare_combined_data ==
    /\ pc = "loaded"
    /\ combined_df' =
          combined_data(equipe_df.rows, <<plan_df, ferias_df, geral_df>>)
    /\ unique_members' = ordered_members(equipe_df.rows)
    /\ pc' = "prepared"
    /\ UNCHANGED <<files, loaded, window, detected, available, st_errors>>

InitOrder == pc = "loaded" /\ Blank

NextOrder ==
    \/ caller_adds_roster_row
    \/ call_prepare_combined_data

SpecOrder == InitOrder /\ [][NextOrder]_vars

----------------------------------------------------------------------------
(* The pipeline: spreadsheets, loaders, join, detector and filter *)

\* the names in the sheets
Names == {"A", "B"}

\* the date cells in the sheets
FirstDay == DateCell(0)
LastDay == DateCell(LastInstant)

\* the start and end cells of a schedule row: a range, an inverted range, a
\* start or an end that is no date
Periods ==
    {<<FirstDay, LastDay>>, <<LastDay, FirstDay>>,
     <<TextCell, LastDay>>, <<FirstDay, TextCell>>}

\* the start and end cells of a vacation instalment: none, a range, a start
\* that is no date
Parcelas ==
    {<<EmptyCell, EmptyCell>>, <<FirstDay, LastDay>>, <<TextCell, LastDay>>}

\* the three instalments of a vacation row: the first any of the above, the
\* second none or a later range, the third none
Programacoes ==
    {<<p1, p2, <<EmptyCell, EmptyCell>>>> :
        p1 \in Parcelas,
        p2 \in {<<EmptyCell, EmptyCell>>, <<DateCell(1), LastDay>>}}

\* rows in the three schedule sheets together
RawRows == Len(plan_file.rows) + Len(ferias_file.rows) + Len(geral_file.rows)

\* a row is typed in sheet 'Equipe'
sheet_gets_employee ==
    /\ pc = "files"
    /\ equipe_file.ok
    /\ Len(equipe_file.rows) < MaxMembers
    /\ \E m \in EmployeeIds \cup {NoId}, n \in Names :
          equipe_file' =
              Sheet(Append(equipe_file.rows,
                           Employee(m, n, "ELET", "Tecnico", "P-80", "Senior")))
    /\ UNCHANGED <<pc, plan_file, ferias_file, geral_file, loaded, joined,
                   window, detected, available, st_errors>>

\* a row is typed in sheet 'Planejamento IED'
sheet_gets_plan_row ==
    /\ pc = "files"
    /\ plan_file.ok
    /\ RawRows < MaxRawRows
    /\ \E n \in Names, p \in Periods :
          plan_file' =
              Sheet(Append(plan_file.rows,
                           [Nome |-> n, Inicio |-> p[1], Termino |-> p[2]]))
    /\ UNCHANGED <<pc, equipe_file, ferias_file, geral_file, loaded, joined,
                   window, detected, available, st_errors>>

\* a row is typed in the vacation sheet
sheet_gets_ferias_row ==
    /\ pc = "files"
    /\ ferias_file.ok
    /\ RawRows < MaxRawRows
    /\ \E m \in EmployeeIds, q \in Programacoes :
          ferias_file' =
              Sheet(Append(ferias_file.rows,
                           [Matricula |-> m, Parcelas |-> q]))
    /\ UNCHANGED <<pc, equipe_file, plan_file, geral_file, loaded, joined,
                   window, detected, available, st_errors>>

\* a row is typed in the general schedule
sheet_gets_geral_row ==
    /\ pc = "files"
    /\ geral_file.ok
    /\ RawRows < MaxRawRows
    /\ \E m \in EmployeeIds \cup {NoId}, p \in Periods :
          geral_file' =
              Sheet(Append(geral_file.rows,
                           [Nome |-> NomeOf(m), Matricula |-> m,
                            Inicio |-> p[1], Termino |-> p[2],
                            Tipo |-> "Folga"]))
    /\ UNCHANGED <<pc, equipe_file, plan_file, ferias_file, loaded, joined,
                   window, detected, available, st_errors>>

\* DataLoader.load_estaleiro_data: both sheets or, on any exception, nothing
load_estaleiro_data ==
    /\ pc = "files"
    /\ IF equipe_file.ok /\ plan_file.ok
       THEN /\ equipe_df' = Frame(active_roster(equipe_file.rows))
            /\ plan_df' =
                  Frame(estaleiro_plan(plan_file.rows,
                                       active_roster(equipe_file.rows)))
            /\ st_errors' = st_errors
       ELSE /\ equipe_df' = None
            /\ plan_df' = None
            /\ st_errors' = Append(st_errors, "Erro ao carregar Estaleiro")
    /\ pc' = "estaleiro"
    /\ UNCHANGED <<files, ferias_df, geral_df, joined, window, detected,
                   available>>

\* DataLoader.load_ferias_data; a sheet without rows has no columns to select
load_ferias_data ==
    /\ pc = "estaleiro"
    /\ IF ferias_file.ok /\ ferias_file.rows # <<>>
       THEN /\ ferias_df' = Frame(ferias_long(ferias_file.rows))
            /\ st_errors' = st_errors
       ELSE /\ ferias_df' = None
            /\ st_errors' = Append(st_errors, "Erro ao carregar Ferias")
    /\ pc' = "ferias"
    /\ UNCHANGED <<files, equipe_df, plan_df, geral_df, joined, window,
                   detected, available>>

\* DataLoader.load_planejamento_geral
load_planejamento_geral ==
    /\ pc = "ferias"
    /\ IF geral_file.ok
       THEN /\ geral_df' = Frame(geral_frame(geral_file.rows))
            /\ st_errors' = st_errors
       ELSE /\ geral_df' = None
            /\ st_errors' = Append(st_errors, "Erro ao carregar Planejamento Geral")
    /\ pc' = "loaded"
    /\ UNCHANGED <<files, equipe_df, plan_df, ferias_df, joined, window,
                   detected, available>>

\* App.run without a roster: an error message and nothing else
run_without_roster ==
    /\ pc = "loaded"
    /\ equipe_df.none
    /\ st_errors' =
          Append(st_errors, "Falha ao carregar arquivo principal (Estaleiro).")
    /\ pc' = "done"
    /\ UNCHANGED <<files, loaded, joined, window, detected, available>>

\* App.run with a roster without rows: a warning and nothing else
run_without_members ==
    /\ pc = "loaded"
    /\ ~ equipe_df.none
    /\ equipe_df.rows = <<>>
    /\ pc' = "done"
    /\ UNCHANGED <<files, loaded, joined, window, detected, available,
                   st_errors>>

\* App.run with every discipline and project selected:
\* DataProcessor.prepare_combined_data(equipe_df, [plan_df, ferias_df, geral_df])
prepare_combined_data ==
    /\ pc = "loaded"
    /\ ~ equipe_df.none
    /\ equipe_df.rows # <<>>
    /\ combined_df' =
          combined_data(equipe_df.rows, <<plan_df, ferias_df, geral_df>>)
    /\ unique_members' = ordered_members(equipe_df.rows)
    /\ pc' = "prepared"
    /\ UNCHANGED <<files, loaded, window, detected, available, st_errors>>

\* the dates st.date_input can return, as pd.Timestamp
WindowDates == {Midnight(d) : d \in 0 .. Date(LastInstant)}

\* Streamlit runs App.run again on every interaction: the cached loaders
\* hand over the same tables, the sidebar gives the window of the day, and
\* the join, the member ordering and the conflict detection are computed anew
rerun ==
    /\ pc = "detected"
    /\ d_inicio' \in WindowDates
    /\ d_fim' \in WindowDates
    /\ d_inicio' <= d_fim'
    /\ \E comb \in {combined_data(equipe_df.rows,
                                   <<plan_df, ferias_df, geral_df>>)} :
          \E rows \in {conflict_rows(comb)} :
             /\ combined_df' = comb
             /\ unique_members' = ordered_members(equipe_df.rows)
             /\ conflicts' = rows
             /\ conflicts_df' = saida(rows)
    /\ UNCHANGED conflitos_texto
    /\ pc' = "rerun"
    /\ UNCHANGED <<files, loaded, sidebar, available, st_errors>>

InitPipeline ==
    /\ pc = "files"
    /\ equipe_file \in {NoFile, Sheet(<<>>)}
    /\ plan_file \in {NoFile, Sheet(<<>>)}
    /\ ferias_file \in {NoFile, Sheet(<<>>)}
    /\ geral_file \in {NoFile, Sheet(<<>>)}
    /\ equipe_df = None
    /\ plan_df = None /\ ferias_df = None /\ geral_df = None
    /\ combined_df = <<>>
    /\ unique_members = <<>>
    /\ d_inicio = NaT /\ d_fim = NaT
    /\ sel_discs = {} /\ sel_projs = {} /\ only_available = FALSE
    /\ conflicts = <<>> /\ conflicts_df = <<>> /\ conflitos_texto = <<>>
    /\ available = <<>>
    /\ st_errors = <<>>

NextPipeline ==
    \/ sheet_gets_employee
    \/ sheet_gets_plan_row
    \/ sheet_gets_ferias_row
    \/ sheet_gets_geral_row
    \/ load_estaleiro_data
    \/ load_ferias_data
    \/ load_planejamento_geral
    \/ run_without_roster
    \/ run_without_members
    \/ prepare_combined_data
    \/ detect_conflicts_vectorized
    \/ rerun

SpecPipeline == InitPipeline /\ [][NextPipeline]_vars

----------------------------------------------------------------------------
(* App.run: sidebar, team filter, join, availability, chart, report *)

\* sorted(column.unique()) raises TypeError when it has to compare a text
\* with a missing value
sortable(values) == NaN \notin values \/ values = {NaN}

all_discs(equipe) == {equipe[k].Disciplina : k \in DOMAIN equipe}
all_projs(equipe) == {equipe[k].Projeto : k \in DOMAIN equipe}

\* the roster rows of the selected disciplines and projects
equipe_filtered(equipe, discs, projs) ==
    LET selected(r) == r.Disciplina \in discs /\ r.Projeto \in projs
    IN SelectSeq(equipe, selected)

\* the sidebar: the selectable disciplines and projects are listed in sorted
\* order, the user selects some of them, a window and the checkbox
run_sidebar ==
    /\ pc = "loaded"
    /\ ~ equipe_df.none
    /\ IF sortable(all_discs(equipe_df.rows))
          /\ sortable(all_projs(equipe_df.rows))
       THEN /\ sel_discs' \in SUBSET all_discs(equipe_df.rows)
            /\ sel_projs' \in SUBSET all_projs(equipe_df.rows)
            /\ d_inicio' \in WindowDates
            /\ d_fim' \in WindowDates
            /\ only_available' \in BOOLEAN
            /\ pc' = "sidebar"
       ELSE /\ UNCHANGED window
            /\ pc' = "raised"
    /\ UNCHANGED <<files, loaded, joined, detected, available, st_errors>>

\* nobody matches the filters: st.warning and return
run_no_team ==
    /\ pc = "sidebar"
    /\ equipe_filtered(equipe_df.rows, sel_discs, sel_projs) = <<>>
    /\ pc' = "no_team"
    /\ UNCHANGED <<files, loaded, joined, window, detected, available,
                   st_errors>>

\* the members left by the checkbox 'Apenas Disponiveis'
members_shown(members, occupied_ids, only) ==
    LET free(r) == r.Matricula \notin occupied_ids
    IN IF only THEN SelectSeq(members, free) ELSE members

\* a checkbox that leaves the assignments as they are
combined_shown_all(combined, members, only) == combined

\* the assignments left by the checkbox 'Apenas Disponiveis'
combined_shown(combined, members, only) ==
    LET shown(c) == c.Matricula \in matriculas_validas(members)
    IN IF only THEN SelectSeq(combined, shown) ELSE combined

\* the join for the filtered team, the occupied ids of the window, and the
\* refiltering of both tables when only the available members are wanted
run_process ==
    /\ pc = "sidebar"
    /\ equipe_filtered(equipe_df.rows, sel_discs, sel_projs) # <<>>
    /\ \E team \in {equipe_filtered(equipe_df.rows, sel_discs, sel_projs)} :
          \E comb \in {combined_data(team, <<plan_df, ferias_df, geral_df>>)} :
             \E shown \in {members_shown(ordered_members(team),
                                         ocupados_ids(comb, d_inicio, d_fim),
                                         only_available)} :
                /\ unique_members' = shown
                /\ combined_df' = combined_shown(comb, shown, only_available)
    /\ pc' = "processed"
    /\ UNCHANGED <<files, loaded, window, detected, available, st_errors>>

\* nobody is left: st.info and return
run_none_available ==
    /\ pc = "processed"
    /\ unique_members = <<>>
    /\ pc' = "none_available"
    /\ UNCHANGED <<files, loaded, joined, window, detected, available,
                   st_errors>>

\* pd.Categorical(categories=unique_members['Nome']) needs unique names that
\* are not missing
names_are_categories(members) ==
    /\ \A i \in DOMAIN members : members[i].Nome # NaN
    /\ \A i, j \in DOMAIN members : members[i].Nome = members[j].Nome => i = j

\* px.timeline(hover_data=[..., "Detalhamento"]) needs that column, which
\* the combined table has only from a general schedule with rows
has_detalhamento(geral) == ~ geral.none /\ geral.rows # <<>>

\* the tab 'Cronograma'
run_chart ==
    /\ pc = "processed"
    /\ unique_members # <<>>
    /\ pc' = IF names_are_categories(unique_members)
                /\ has_detalhamento(geral_df)
             THEN "charted"
             ELSE "raised"
    /\ UNCHANGED <<files, loaded, joined, window, detected, available,
                   st_errors>>

\* the tab 'Relatorio de Conflitos'
run_report ==
    /\ pc = "charted"
    /\ \E rows \in {conflict_rows(combined_df)} :
          /\ conflicts' = rows
          /\ conflicts_df' = saida(rows)
    /\ UNCHANGED conflitos_texto
    /\ pc' = "rendered"
    /\ UNCHANGED <<files, loaded, joined, window, available, st_errors>>

----------------------------------------------------------------------------
(* The first Streamlit application: read_*, main_streamlit, create_plot *)

\* pd.to_datetime(column) without errors='coerce' raises on a cell that is
\* no date
dates_parse(rows) ==
    \A k \in DOMAIN rows :
        rows[k].Inicio.kind # "text" /\ rows[k].Termino.kind # "text"

\* read_estaleiro_data: only FileNotFoundError is caught
read_estaleiro_data ==
    /\ pc = "files"
    /\ IF ~ equipe_file.found
       THEN /\ equipe_df' = None
            /\ plan_df' = None
            /\ st_errors' = Append(st_errors, "Arquivo nao encontrado")
            /\ pc' = "legacy_estaleiro"
       ELSE IF equipe_file.ok /\ plan_file.ok /\ dates_parse(plan_file.rows)
       THEN /\ equipe_df' = Frame(active_roster(equipe_file.rows))
            /\ plan_df' =
                  Frame(estaleiro_plan(plan_file.rows,
                                       active_roster(equipe_file.rows)))
            /\ st_errors' = st_errors
            /\ pc' = "legacy_estaleiro"
       ELSE /\ UNCHANGED <<equipe_df, plan_df, st_errors>>
            /\ pc' = "legacy_raised"
    /\ UNCHANGED <<files, ferias_df, geral_df, joined, window, detected,
                   available>>

\* the frame of read_ferias_data: the first instalments that have a start
\* cell, then the second ones, then the third ones
ferias_parcelas(rows) ==
    Flatten([j \in 1 .. 3 |->
        LET started(r) == ~ isna(r.Parcelas[j][1])
            kept == SelectSeq(rows, started)
        IN [k \in DOMAIN kept |->
               [Matricula |-> kept[k].Matricula, Nome |-> kept[k].Nome,
                Inicio |-> kept[k].Parcelas[j][1],
                Termino |-> kept[k].Parcelas[j][2],
                Tipo |-> "Ferias"]]])

\* read_ferias_data: only FileNotFoundError is caught; a sheet without rows
\* has no columns to rename
read_ferias_data ==
    /\ pc = "legacy_estaleiro"
    /\ IF ~ ferias_file.found
       THEN /\ ferias_df' = None
            /\ st_errors' = Append(st_errors, "Arquivo nao encontrado")
            /\ pc' = "legacy_ferias"
       ELSE IF /\ ferias_file.ok
               /\ ferias_file.rows # <<>>
               /\ dates_parse(ferias_parcelas(ferias_file.rows))
       THEN /\ ferias_df' =
                  Frame(normalize_dates(ferias_parcelas(ferias_file.rows)))
            /\ st_errors' = st_errors
            /\ pc' = "legacy_ferias"
       ELSE /\ UNCHANGED <<ferias_df, st_errors>>
            /\ pc' = "legacy_raised"
    /\ UNCHANGED <<files, equipe_df, plan_df, geral_df, joined, window,
                   detected, available>>

\* read_planejamento_geral: only FileNotFoundError is caught
read_planejamento_geral ==
    /\ pc = "legacy_ferias"
    /\ IF ~ geral_file.found
       THEN /\ geral_df' = None
            /\ st_errors' = Append(st_errors, "Arquivo nao encontrado")
            /\ pc' = "legacy_loaded"
       ELSE IF geral_file.ok /\ dates_parse(geral_file.rows)
       THEN /\ geral_df' = Frame(normalize_dates(geral_file.rows))
            /\ st_errors' = st_errors
            /\ pc' = "legacy_loaded"
       ELSE /\ UNCHANGED <<geral_df, st_errors>>
            /\ pc' = "legacy_raised"
    /\ UNCHANGED <<files, equipe_df, plan_df, ferias_df, joined, window,
                   detected, available>>

\* main_streamlit without a roster: st.warning
main_without_roster ==
    /\ pc = "legacy_loaded"
    /\ equipe_df.none
    /\ pc' = "legacy_done"
    /\ UNCHANGED <<files, loaded, joined, window, detected, available,
                   st_errors>>

\* a source cut to the columns main_streamlit concatenates; the columns it
\* does not have are missing values in the concatenation
legacy_columns(df) ==
    [k \in DOMAIN df.rows |->
        LET r == df.rows[k]
            has(c) == c \in DOMAIN r
        IN [Matricula |-> r.Matricula, Nome |-> r.Nome,
            Inicio |-> r.Inicio, Termino |-> r.Termino,
            Disciplina |-> IF has("Disciplina") THEN r.Disciplina ELSE NaN,
            Funcao |-> IF has("Funcao") THEN r.Funcao ELSE NaN,
            Projeto |-> IF has("Projeto") THEN r.Projeto ELSE NaN,
            Tipo |-> r.Tipo]]

\* row i is placed before row j by
\* sort_values(by=['Disciplina', 'Funcao', 'Projeto', 'Matricula'],
\*             na_position='last')
LegacyBefore(t, i, j) ==
    \/ StrLess(t[i].Disciplina, t[j].Disciplina)
    \/ /\ t[i].Disciplina = t[j].Disciplina
       /\ \/ StrLess(t[i].Funcao, t[j].Funcao)
          \/ /\ t[i].Funcao = t[j].Funcao
             /\ \/ StrLess(t[i].Projeto, t[j].Projeto)
                \/ /\ t[i].Projeto = t[j].Projeto
                   /\ \/ IdLess(t[i].Matricula, t[j].Matricula)
                      \/ t[i].Matricula = t[j].Matricula /\ i < j

legacy_sort(t) ==
    [k \in DOMAIN t |->
        t[CHOOSE i \in DOMAIN t :
              Cardinality({j \in DOMAIN t : LegacyBefore(t, j, i)}) = k - 1]]

\* matricula_mapping[m]: the last roster row with that Matricula
matricula_mapping(equipe, m) ==
    equipe[CHOOSE k \in DOMAIN equipe :
               /\ equipe[k].Matricula = m
               /\ \A j \in DOMAIN equipe :
                     equipe[j].Matricula = m => j <= k]

\* the loop that fills the roster columns of the rows that lack one
legacy_fill(row, equipe) ==
    IF /\ NaN \in {row.Disciplina, row.Funcao, row.Projeto}
       /\ row.Matricula # NoId
       /\ row.Matricula \in matriculas_validas(equipe)
    THEN [row EXCEPT
             !.Disciplina = matricula_mapping(equipe, row.Matricula).Disciplina,
             !.Funcao = matricula_mapping(equipe, row.Matricula).Funcao,
             !.Projeto = matricula_mapping(equipe, row.Matricula).Projeto]
    ELSE row

\* the table combined_df of main_streamlit
legacy_combined(equipe, dfs) ==
    LET all == Flatten([k \in DOMAIN dfs |->
                   IF dfs[k].none THEN <<>> ELSE legacy_columns(dfs[k])])
        sorted == legacy_sort(all)
    IN [k \in DOMAIN sorted |-> legacy_fill(sorted[k], equipe)]

\* main_streamlit up to the call of create_plot
main_combine ==
    /\ pc = "legacy_loaded"
    /\ ~ equipe_df.none
    /\ combined_df' =
          legacy_combined(equipe_df.rows, <<plan_df, ferias_df, geral_df>>)
    /\ pc' = "legacy_combined"
    /\ UNCHANGED <<files, loaded, unique_members, window, detected,
                   available, st_errors>>

\* cores_atividades / atribuir_cor
atribuir_cor(tipo) ==
    CASE tipo = "Estaleiro" -> "blue"
      [] tipo = "Ferias" -> "red"
      [] tipo = "Workshop" -> "green"
      [] tipo = "Treinamento" -> "orange"
      [] tipo = "Embarque" -> "purple"
      [] tipo = "Visita Tecnica" -> "teal"
      [] tipo = "Folga" -> "magenta"
      [] OTHER -> "gray"

\* the rows create_plot draws as bars: for every member of the sorted roster
\* the rows of the combined table with the Matricula of that member
periodos_plotted(combined, members) ==
    LET drawn(c) == c.Matricula \in matriculas_validas(members)
    IN SelectSeq(combined, drawn)

\* create_plot(combined_df, equipe_df, ...): the column 'Cor' is assigned on
\* the table of the caller; the members are sorted for the plot; the
\* conflicts are written under the plot
create_plot ==
    /\ pc = "legacy_combined"
    /\ combined_df' =
          [k \in DOMAIN combined_df |->
              [c \in DOMAIN combined_df[k] \cup {"Cor"} |->
                  IF c = "Cor"
                  THEN atribuir_cor(combined_df[k].Tipo)
                  ELSE combined_df[k][c]]]
    /\ unique_members' = legacy_sort(equipe_df.rows)
    /\ conflitos_texto' = detectar_conflitos(combined_df)
    /\ pc' = "plotted"
    /\ UNCHANGED <<files, loaded, window, conflicts, conflicts_df, available,
                   st_errors>>

\* the rosters, shipyard schedules, vacation sheets and general schedules of
\* the runs
RunStaff ==
    {Employee(1, "A", "ELET", "Tecnico", "P-80", "Senior"),
     Employee(2, "B", "MEC", "Tecnico", "P-80", "Senior"),
     Employee(2, "B", NaN, "Tecnico", "P-80", "Senior"),
     Employee(2, "B", "MEC", "Tecnico", "P-80", NaN),
     Employee(NoId, "A", "ELET", "Tecnico", "P-80", "Senior")}

RunRosters == UNION {[1 .. n -> RunStaff] : n \in 0 .. MaxRunMembers}

RunPlans ==
    {<<>>,
     <<[Nome |-> "A", Inicio |-> FirstDay, Termino |-> LastDay]>>,
     <<[Nome |-> "B", Inicio |-> FirstDay, Termino |-> LastDay]>>}

RunFerias ==
    {<<[Matricula |-> 1, Nome |-> "A",
        Parcelas |-> <<<<FirstDay, LastDay>>, <<EmptyCell, EmptyCell>>,
                       <<EmptyCell, EmptyCell>>>>]>>}

GeralRow(m, inicio, termino) ==
    [Nome |-> NomeOf(m), Matricula |-> m, Inicio |-> inicio,
     Termino |-> termino, Tipo |-> "Folga"]

RunGeralRows ==
    {GeralRow(1, FirstDay, LastDay), GeralRow(1, DateCell(1), LastDay),
     GeralRow(2, FirstDay, LastDay), GeralRow(2, TextCell, LastDay)}

RunGerais == UNION {[1 .. n -> RunGeralRows] : n \in 0 .. MaxRunRows}

\* the files on disk: the two sheets of the shipyard workbook are there or
\* not there together
InitFiles ==
    /\ \/ equipe_file = NoFile /\ plan_file = NoFile
       \/ /\ equipe_file \in {Sheet(r) : r \in RunRosters}
          /\ plan_file \in {Malformed} \cup {Sheet(r) : r \in RunPlans}
    /\ ferias_file \in {NoFile, Malformed} \cup {Sheet(r) : r \in RunFerias}
    /\ geral_file \in {NoFile, Malformed} \cup {Sheet(r) : r \in RunGerais}

InitRun ==
    /\ pc = "files"
    /\ InitFiles
    /\ equipe_df = None
    /\ plan_df = None /\ ferias_df = None /\ geral_df = None
    /\ combined_df = <<>>
    /\ unique_members = <<>>
    /\ d_inicio = NaT /\ d_fim = NaT
    /\ sel_discs = {} /\ sel_projs = {} /\ only_available = FALSE
    /\ conflicts = <<>> /\ conflicts_df = <<>> /\ conflitos_texto = <<>>
    /\ available = <<>>
    /\ st_errors = <<>>

NextRun ==
    \/ load_estaleiro_data
    \/ load_ferias_data
    \/ load_planejamento_geral
    \/ run_without_roster
    \/ run_sidebar
    \/ run_no_team
    \/ run_process
    \/ run_none_available
    \/ run_chart
    \/ run_report
    \/ read_estaleiro_data
    \/ read_ferias_data
    \/ read_planejamento_geral
    \/ main_without_roster
    \/ main_combine
    \/ create_plot

SpecRun == InitRun /\ [][NextRun]_vars

----------------------------------------------------------------------------
(* Properties of the detector *)

\* assignment i starts before assignment j: earlier start, a missing start
\* after every present one, equal starts in input order
StartsBefore(i, j) ==
    LET a == combined_df[i].Inicio
        b == combined_df[j].Inicio
    IN \/ a # NaT /\ b # NaT /\ a < b
       \/ a # NaT /\ b = NaT
       \/ a = b /\ i < j

SameEmployee(i, j) == combined_df[i].Matricula = combined_df[j].Matricula

\* j is the assignment that follows i immediately in the start-sorted order of
\* their employee
Adjacent(i, j) ==
    /\ i # j
    /\ SameEmployee(i, j)
    /\ StartsBefore(i, j)
    /\ ~ \E m \in DOMAIN combined_df :
            /\ SameEmployee(i, m)
            /\ StartsBefore(i, m)
            /\ StartsBefore(m, j)

\* the detector selected assignment i against assignment j
Reported(i, j) ==
    \E k \in DOMAIN conflicts :
        /\ conflicts[k].idx = i
        /\ conflicts[k].Next_Tipo = combined_df[j].Tipo
        /\ conflicts[k].Next_Inicio = combined_df[j].Inicio

BothPresent(i, j) ==
    combined_df[i].Termino # NaT /\ combined_df[j].Inicio # NaT

\* i ends strictly after the instant at which j starts
EndsAfterStart(i, j) ==
    /\ BothPresent(i, j)
    /\ combined_df[i].Termino > combined_df[j].Inicio

\* the rule of the specification: i ends at or after the start of j, on a
\* later calendar day
EndsOnLaterDay(i, j) ==
    /\ BothPresent(i, j)
    /\ combined_df[i].Termino >= combined_df[j].Inicio
    /\ Date(combined_df[i].Termino) > Date(combined_df[j].Inicio)

PartnerOf(k) ==
    {j \in DOMAIN combined_df :
        /\ combined_df[j].Tipo = conflicts[k].Next_Tipo
        /\ combined_df[j].Matricula = conflicts[k].Matricula}

EntriesOf(e) == {k \in DOMAIN conflicts : conflicts[k].Matricula = e}

AssignmentsOf(e) == {i \in DOMAIN combined_df : combined_df[i].Matricula = e}

\* C3: every entry pairs an assignment with the one that follows it
\* immediately in its employee's start-sorted order, never with a later one,
\* and an employee with n assignments has at most n - 1 entries
C3_OnlyAdjacentPairs ==
    pc = "detected" =>
        /\ \A k \in DOMAIN conflicts :
              /\ PartnerOf(k) # {}
              /\ \A j \in PartnerOf(k) : Adjacent(conflicts[k].idx, j)
        /\ \A e \in EmployeeIds :
              AssignmentsOf(e) # {} =>
                  Cardinality(EntriesOf(e)) <= Cardinality(AssignmentsOf(e)) - 1

\* A and C overlap with B sorted between them: A against B is reported,
\* A against C is not
C3_Witness ==
    /\ pc = "detected"
    /\ \E a, b, c \in DOMAIN combined_df :
          /\ Adjacent(a, b)
          /\ Adjacent(b, c)
          /\ EndsAfterStart(a, b)
          /\ EndsAfterStart(a, c)
          /\ BothPresent(b, c)
          /\ ~ EndsAfterStart(b, c)
          /\ Reported(a, b)
          /\ ~ Reported(a, c)

\* the adjacent pairs of the table that are in conflict
ConflictingAdjacentPairs ==
    {p \in (DOMAIN combined_df) \X (DOMAIN combined_df) :
        Adjacent(p[1], p[2]) /\ EndsAfterStart(p[1], p[2])}

----------------------------------------------------------------------------
(* Properties of the availability filter *)

\* the assignment intersects the window [d_inicio, d_fim], both ends included
IntersectsWindow(a) ==
    /\ a.Inicio # NaT /\ a.Termino # NaT
    /\ a.Inicio <= d_fim
    /\ a.Termino >= d_inicio

\* the employee has no assignment that intersects the window
Free(r) ==
    \A i \in DOMAIN combined_df :
        combined_df[i].Matricula = r.Matricula =>
            ~ IntersectsWindow(combined_df[i])

\* C2: the call returns the roster rows, in roster order, of the employees
\* with no assignment such that start <= window end and end >= window start
C2_AvailableIffNoIntersection ==
    pc = "filtered" => available = SelectSeq(equipe_df.rows, Free)

\* an employee whose only contact with the window is an assignment that ends
\* at the instant the window starts is left out, while another one is returned
C2_Witness ==
    /\ pc = "filtered"
    /\ d_inicio < d_fim
    /\ Len(available) = 1
    /\ Len(equipe_df.rows) = 2
    /\ \E i \in DOMAIN combined_df :
          /\ combined_df[i].Termino = d_inicio
          /\ combined_df[i].Inicio # NaT
          /\ combined_df[i].Inicio < d_inicio
          /\ \E k \in DOMAIN equipe_df.rows :
                equipe_df.rows[k].Matricula = combined_df[i].Matricula
          /\ \A k \in DOMAIN available :
                available[k].Matricula # combined_df[i].Matricula
          /\ \A j \in DOMAIN combined_df :
                combined_df[j].Matricula = combined_df[i].Matricula =>
                    (j = i \/ ~ IntersectsWindow(combined_df[j]))


----------------------------------------------------------------------------
(* Properties of the join *)

\* the join has run
Prepared == pc \in {"prepared", "detected"}

\* the list dfs_eventos that App.run hands to prepare_combined_data
dfs_eventos == <<plan_df, ferias_df, geral_df>>

\* the rows of the sources handed to the join, in list order
SourceRows == Flatten([k \in DOMAIN dfs_eventos |-> dfs_eventos[k].rows])

\* no roster row has the Matricula of this assignment
Unmatched(r) == r.Matricula \notin matriculas_validas(equipe_df.rows)

\* C5: after the join every combined row carries an employee id, and that id
\* is one of the roster's; assignments with an unknown id or with no id are
\* dropped
C5_EveryRowCarriesRosterId ==
    Prepared =>
        \A k \in DOMAIN combined_df :
            /\ combined_df[k].Matricula # NoId
            /\ combined_df[k].Matricula \in matriculas_validas(equipe_df.rows)

\* C6 as stated: an assignment without a roster match is kept in the combined
\* table, with the roster columns missing
C6_UnmatchedIsKept ==
    Prepared =>
        \A i \in DOMAIN SourceRows :
            Unmatched(SourceRows[i]) =>
                \E k \in DOMAIN combined_df :
                    /\ combined_df[k].Matricula = SourceRows[i].Matricula
                    /\ combined_df[k].Disciplina = NaN
                    /\ combined_df[k].Funcao = NaN
                    /\ combined_df[k].Projeto = NaN

\* C6: an assignment without a roster match is dropped before the join: no
\* combined row and no reported conflict carries its id
C6_UnmatchedIsDropped ==
    Prepared =>
        \A i \in DOMAIN SourceRows :
            Unmatched(SourceRows[i]) =>
                /\ \A k \in DOMAIN combined_df :
                      combined_df[k].Matricula # SourceRows[i].Matricula
                /\ \A k \in DOMAIN conflicts :
                      conflicts[k].Matricula # SourceRows[i].Matricula

\* two overlapping assignments of one id that is not in the roster went
\* through the join and the detector, and nothing was reported
C6_Witness ==
    /\ pc = "detected"
    /\ Len(geral_df.rows) = 2
    /\ geral_df.rows[1].Matricula = geral_df.rows[2].Matricula
    /\ geral_df.rows[1].Matricula # NoId
    /\ Unmatched(geral_df.rows[1])
    /\ equipe_df.rows # <<>>
    /\ GT(geral_df.rows[1].Termino, geral_df.rows[2].Inicio)
    /\ GT(geral_df.rows[2].Termino, geral_df.rows[1].Inicio)
    /\ conflicts = <<>>

\* C7: the join never multiplies rows: the combined table has one row per
\* assignment that entered the merge, also when roster rows share an id
C7_EachAssignmentOnce ==
    (Prepared /\ NoId \notin matriculas_validas(equipe_df.rows)) =>
        Len(combined_df) = Len(concat_sources(equipe_df.rows, dfs_eventos))

\* C8: every row of the shipyard schedule is attributed to at most one roster
\* employee, also when roster rows share a name
C8_PlanRowHasOneEmployee ==
    (pc # "files" /\ ~ plan_df.none) =>
        Len(plan_df.rows) <= Len(plan_file.rows)

\* C9: no combined row starts after it ends
C9_StartNotAfterEnd ==
    Prepared =>
        \A k \in DOMAIN combined_df :
            ~ GT(combined_df[k].Inicio, combined_df[k].Termino)

----------------------------------------------------------------------------
(* Properties of the loaders *)

\* the three schedule loaders have run
Loaded == pc \in {"loaded", "prepared", "detected", "done"}

\* a cell that holds something that is no date
Unparsable(cell) == cell.kind = "text"

\* the row carries the dates of the two cells, and no date where the cell
\* holds none
CarriesCells(row, inicio, termino) ==
    /\ row.Inicio = (IF Unparsable(inicio) THEN NaT ELSE inicio.value)
    /\ row.Termino = (IF Unparsable(termino) THEN NaT ELSE termino.value)

\* the instalments of the vacation sheet that have a start cell
Started ==
    {<<k, j>> \in (DOMAIN ferias_file.rows) \X (1 .. 3) :
        ~ isna(ferias_file.rows[k].Parcelas[j][1])}

\* C10 as stated: a row with a date cell that is no date is not in the table
\* its loader returns
C10_UnparsableRowIsDropped ==
    Loaded =>
        /\ ~ geral_df.none =>
              Len(geral_df.rows) =
                  Cardinality({k \in DOMAIN geral_file.rows :
                      /\ ~ Unparsable(geral_file.rows[k].Inicio)
                      /\ ~ Unparsable(geral_file.rows[k].Termino)})
        /\ ~ ferias_df.none =>
              Len(ferias_df.rows) =
                  Cardinality({c \in Started :
                      /\ ~ Unparsable(ferias_file.rows[c[1]].Parcelas[c[2]][1])
                      /\ ~ Unparsable(ferias_file.rows[c[1]].Parcelas[c[2]][2])})

\* C10: a row with a date cell that is no date stays in the table its loader
\* returns, with that date missing; the loader returns a table whenever the
\* sheet can be read; the row enters the join like any other
C10_UnparsableDateIsKeptAsNaT ==
    Loaded =>
        /\ geral_file.ok =>
              /\ ~ geral_df.none
              /\ Len(geral_df.rows) = Len(geral_file.rows)
              /\ \A k \in DOMAIN geral_file.rows :
                    CarriesCells(geral_df.rows[k], geral_file.rows[k].Inicio,
                                 geral_file.rows[k].Termino)
        /\ (ferias_file.ok /\ ferias_file.rows # <<>>) =>
              /\ ~ ferias_df.none
              /\ Len(ferias_df.rows) = Cardinality(Started)
              /\ \A c \in Started :
                    \E i \in DOMAIN ferias_df.rows :
                        /\ ferias_df.rows[i].Matricula =
                              ferias_file.rows[c[1]].Matricula
                        /\ CarriesCells(ferias_df.rows[i],
                                        ferias_file.rows[c[1]].Parcelas[c[2]][1],
                                        ferias_file.rows[c[1]].Parcelas[c[2]][2])
        /\ (equipe_file.ok /\ plan_file.ok) =>
              /\ ~ plan_df.none
              /\ \A k \in DOMAIN plan_file.rows :
                    \E i \in DOMAIN plan_df.rows :
                        /\ plan_df.rows[i].Nome = plan_file.rows[k].Nome
                        /\ CarriesCells(plan_df.rows[i],
                                        plan_file.rows[k].Inicio,
                                        plan_file.rows[k].Termino)
        /\ (Prepared /\ geral_file.ok) =>
              \A k \in DOMAIN geral_file.rows :
                  ~ Unmatched(geral_file.rows[k]) =>
                      \E i \in DOMAIN combined_df :
                          /\ combined_df[i].Matricula =
                                geral_file.rows[k].Matricula
                          /\ combined_df[i].Tipo = geral_file.rows[k].Tipo
                          /\ CarriesCells(combined_df[i],
                                          geral_file.rows[k].Inicio,
                                          geral_file.rows[k].Termino)

\* a sheet with a row whose start is no date and a row with two dates was
\* loaded and joined: both rows are in the combined table, the first without
\* a start
C10_Witness ==
    /\ Prepared
    /\ ~ geral_df.none
    /\ Len(geral_file.rows) = 2
    /\ geral_file.rows[1].Matricula # NoId
    /\ Unparsable(geral_file.rows[1].Inicio)
    /\ ~ Unparsable(geral_file.rows[2].Inicio)
    /\ ~ Unparsable(geral_file.rows[2].Termino)
    /\ Len(combined_df) = 2
    /\ combined_df[1].Inicio = NaT
    /\ combined_df[1].Termino # NaT
    /\ combined_df[2].Inicio # NaT


\* the date a cell holds, if it holds one
DateIn(cell) == IF Unparsable(cell) THEN NaT ELSE cell.value

\* the instalments of one row of the vacation sheet that have a start cell,
\* each as the assignment it stands for
PresentParcelas(r) ==
    LET present(j) == ~ isna(r.Parcelas[j][1])
        js == SelectSeq(<<1, 2, 3>>, present)
    IN [i \in DOMAIN js |->
           [Matricula |-> r.Matricula,
            Inicio |-> DateIn(r.Parcelas[js[i]][1]),
            Termino |-> DateIn(r.Parcelas[js[i]][2]),
            Tipo |-> "Ferias"]]

\* C11: every row of the vacation sheet yields one assignment per instalment
\* whose start is present, none for an absent one, each with the start and
\* the end of its own instalment, row after row
C11_OneAssignmentPerPresentParcela ==
    (Loaded /\ ~ ferias_df.none) =>
        /\ ferias_df.rows =
              Flatten([k \in DOMAIN ferias_file.rows |->
                          PresentParcelas(ferias_file.rows[k])])
        /\ \A k \in DOMAIN ferias_file.rows :
              Len(PresentParcelas(ferias_file.rows[k])) =
                  Cardinality({j \in 1 .. 3 :
                      ~ isna(ferias_file.rows[k].Parcelas[j][1])})

\* a vacation row without a first instalment and with a second one gave one
\* assignment, with the dates of the second instalment; a row with two
\* instalments gave two
C11_Witness ==
    /\ Loaded
    /\ Len(ferias_file.rows) = 2
    /\ isna(ferias_file.rows[1].Parcelas[1][1])
    /\ ~ isna(ferias_file.rows[1].Parcelas[2][1])
    /\ ferias_file.rows[2].Parcelas[1][1] = FirstDay
    /\ ~ isna(ferias_file.rows[2].Parcelas[2][1])
    /\ Len(ferias_df.rows) = 3
    /\ ferias_df.rows[1].Inicio = 1
    /\ ferias_df.rows[2].Inicio = 0
    /\ ferias_df.rows[3].Inicio = 1


----------------------------------------------------------------------------
(* Properties of the member ordering *)

\* place of a discipline in the fixed order, a missing one after all others
DisciplineOrder(d) ==
    CASE d = "ELET" -> 1
      [] d = "INST" -> 2
      [] d = "MEC" -> 3
      [] OTHER -> 4

\* place of a text in ascending order, a missing one after all others
TextOrder(x) == IF x = NaN THEN Len(Lexicon) + 1 ELSE StrRank(x)

\* the sort key of a member
MemberKey(r) ==
    <<DisciplineOrder(r.Disciplina), TextOrder(r.Funcao),
      TextOrder(r.Projeto), TextOrder(r.Nome)>>

\* key a is not after key b: the first component that differs decides
KeyNotAfter(a, b) ==
    \A i \in 1 .. 4 :
        (\A j \in 1 .. i - 1 : a[j] = b[j]) => a[i] <= b[i]

\* C12: the ordered member list holds the roster's members, each once, by
\* discipline in the order ELET, INST, MEC, then role, then project, then
\* name, a missing value after every present value of its key
C12_MembersOrdered ==
    pc = "prepared" =>
        /\ Len(unique_members) = Len(equipe_df.rows)
        /\ \A k \in DOMAIN equipe_df.rows :
              \E i \in DOMAIN unique_members :
                  /\ unique_members[i].Matricula = equipe_df.rows[k].Matricula
                  /\ unique_members[i].Nome = equipe_df.rows[k].Nome
                  /\ unique_members[i].Funcao = equipe_df.rows[k].Funcao
                  /\ unique_members[i].Projeto = equipe_df.rows[k].Projeto
                  /\ DisciplineOrder(unique_members[i].Disciplina) =
                        DisciplineOrder(equipe_df.rows[k].Disciplina)
        /\ \A i \in 1 .. Len(unique_members) - 1 :
              KeyNotAfter(MemberKey(unique_members[i]),
                          MemberKey(unique_members[i + 1]))

\* a roster given in the opposite order came back ordered: MEC was given
\* before ELET, and among the ELET members the one without a role was given
\* before the one with a role
C12_Witness ==
    /\ pc = "prepared"
    /\ Len(unique_members) = 3
    /\ equipe_df.rows[1].Disciplina = "MEC"
    /\ equipe_df.rows[2].Disciplina = "ELET"
    /\ equipe_df.rows[2].Funcao = NaN
    /\ equipe_df.rows[3].Disciplina = "ELET"
    /\ equipe_df.rows[3].Funcao = "Tecnico"
    /\ unique_members[1].Matricula = 3
    /\ unique_members[2].Matricula = 2
    /\ unique_members[3].Matricula = 1


----------------------------------------------------------------------------
(* Properties of the availability filter: members without assignments *)

\* the roster rows with no row in the combined table
Unassigned ==
    {k \in DOMAIN equipe_df.rows :
        \A i \in DOMAIN combined_df :
            combined_df[i].Matricula # equipe_df.rows[k].Matricula}

\* C14: a roster member without any assignment is returned as available,
\* whatever the window, whether the combined table is empty or holds other
\* members' assignments
C14_UnassignedIsAvailable ==
    pc = "filtered" =>
        \A k \in Unassigned :
            \E i \in DOMAIN available : available[i] = equipe_df.rows[k]

\* the combined table holds assignments of member 1 only, one of them in the
\* window: member 1 is not available, member 2 is
C14_Witness ==
    /\ pc = "filtered"
    /\ Len(equipe_df.rows) = 2
    /\ equipe_df.rows[1].Matricula = 1
    /\ equipe_df.rows[2].Matricula = 2
    /\ combined_df # <<>>
    /\ \A i \in DOMAIN combined_df : combined_df[i].Matricula = 1
    /\ \E i \in DOMAIN combined_df : IntersectsWindow(combined_df[i])
    /\ available = <<equipe_df.rows[2]>>


----------------------------------------------------------------------------
(* Properties of a whole run of an application *)

\* positions of the first Streamlit application
LegacyPositions ==
    {"legacy_estaleiro", "legacy_ferias", "legacy_loaded", "legacy_done",
     "legacy_raised", "legacy_combined", "plotted"}

\* the rows of sheet 'Equipe' with and without experience marker
Marked == {k \in DOMAIN equipe_file.rows : equipe_file.rows[k].Experiencia # NaN}
Unmarked == DOMAIN equipe_file.rows \ Marked

\* the ids and the names that only rows without experience marker carry
ExcludedIds ==
    {equipe_file.rows[k].Matricula : k \in Unmarked}
        \ {equipe_file.rows[k].Matricula : k \in Marked}
ExcludedNames ==
    {equipe_file.rows[k].Nome : k \in Unmarked}
        \ {equipe_file.rows[k].Nome : k \in Marked}

\* the table has a row of an excluded person
ShowsExcluded(t) ==
    \E k \in DOMAIN t :
        t[k].Matricula \in ExcludedIds \/ t[k].Nome \in ExcludedNames

\* C13: in no run of either application does a table of the run (members,
\* combined assignments, conflicts, available) hold a row of an excluded
\* person
C13_ExcludedInNoTable ==
    /\ ~ ShowsExcluded(unique_members)
    /\ ~ ShowsExcluded(combined_df)
    /\ ~ ShowsExcluded(conflicts)
    /\ ~ ShowsExcluded(available)

----------------------------------------------------------------------------
(* C15: the conflict report and the analysis window *)

\* the conflict report of the selected team, computed from the join alone
ReportOfTeam ==
    saida(conflict_rows(
        combined_data(equipe_filtered(equipe_df.rows, sel_discs, sel_projs),
                      dfs_eventos)))

\* C15: the conflict report App.run renders is the one of the selected team
\* and of the sources, whatever the analysis window and the checkbox
\* 'Apenas Disponiveis' are
C15_ReportIgnoresWindow ==
    pc = "rendered" => conflicts_df = ReportOfTeam

----------------------------------------------------------------------------
(* C16: a run with one source missing or unreadable *)

EstaleiroFailed == ~ (equipe_file.ok /\ plan_file.ok)
FeriasFailed == ~ ferias_file.ok
GeralFailed == ~ geral_file.ok

OneSourceFailed ==
    \/ EstaleiroFailed /\ ~ FeriasFailed /\ ~ GeralFailed
    \/ ~ EstaleiroFailed /\ FeriasFailed /\ ~ GeralFailed
    \/ ~ EstaleiroFailed /\ ~ FeriasFailed /\ GeralFailed

\* the loaded roster gives the sidebar and the chart nothing to raise on
RosterRenders ==
    /\ sortable(all_discs(equipe_df.rows))
    /\ sortable(all_projs(equipe_df.rows))
    /\ names_are_categories(equipe_df.rows)

\* C16: with one source missing or unreadable, and a general schedule that
\* has rows when it is there, App.run neither stops after the loading nor
\* raises: it goes on with the remaining sources
C16_RunSurvivesOneFailedSource ==
    (/\ OneSourceFailed
     /\ RosterRenders
     /\ GeralFailed \/ geral_file.rows # <<>>) => pc \notin {"done", "raised"}

----------------------------------------------------------------------------
(* C17: what the loaders do with a source they cannot use *)

\* the general schedule has a cell that is no date in a date column
GeralUnparsable == geral_file.ok /\ ~ dates_parse(geral_file.rows)

HasMessage(text) == \E k \in DOMAIN st_errors : st_errors[k] = text

\* C17: no exception of a read_* loader reaches main_streamlit, and
\* load_planejamento_geral answers a date cell it cannot parse with an
\* absent table and a message
C17_LoaderAnswersAbsentWithMessage ==
    /\ pc # "legacy_raised"
    /\ (pc = "loaded" /\ GeralUnparsable) =>
          /\ geral_df.none
          /\ HasMessage("Erro ao carregar Planejamento Geral")

----------------------------------------------------------------------------
(* C18: how a run of App.run with a loaded roster ends *)

\* App.run has returned or raised
RunEnded == pc \in {"no_team", "none_available", "raised", "rendered"}

\* the run got to the tabs with members to show
ReachedRendering == unique_members # <<>>

\* C18: a run of App.run with a loaded roster ends with the message of an
\* empty team, with the message of a team without available members, or in
\* the rendering step
C18_EmptyResultOrRendering ==
    RunEnded =>
        \/ /\ pc = "no_team"
           /\ equipe_filtered(equipe_df.rows, sel_discs, sel_projs) = <<>>
           /\ conflicts_df = <<>>
        \/ /\ pc = "none_available"
           /\ unique_members = <<>>
           /\ conflicts_df = <<>>
        \/ ReachedRendering

----------------------------------------------------------------------------
(* C19: the tables of the caller after a stage has returned *)

\* C19: after create_plot has returned, the combined table main_streamlit
\* holds has the rows, the columns and the row order it had at the call
C19_CreatePlotLeavesTableAlone ==
    pc = "plotted" => combined_df = legacy_combined(equipe_df.rows, dfs_eventos)

----------------------------------------------------------------------------
(* C20: a second run on the same tables *)

----------------------------------------------------------------------------
(* C21: the order in which the detector scans the assignments *)

\* the rows of the table handed to the detector, in the order of the scan
Scanned == [k \in DOMAIN combined_df |-> sort_values(combined_df)[k]]

\* positions k and k + 1 of the scan hold two assignments of one employee
\* with the same start, which is present, and both ends present
TiedOnStart(k) ==
    LET a == combined_df[Scanned[k]]
        b == combined_df[Scanned[k + 1]]
    IN /\ a.Matricula = b.Matricula
       /\ a.Inicio = b.Inicio
       /\ a.Inicio # NaT
       /\ a.Termino # NaT /\ b.Termino # NaT

\* C21: in the scan of the detector two assignments of one employee with the
\* same start come with the earlier end first, and with the same start and
\* the same end in their input order
C21_TiesOnStartByEndThenInput ==
    pc = "detected" =>
        \A k \in 1 .. Len(combined_df) - 1 :
            TiedOnStart(k) =>
                LET a == combined_df[Scanned[k]]
                    b == combined_df[Scanned[k + 1]]
                IN \/ a.Termino < b.Termino
                   \/ a.Termino = b.Termino /\ Scanned[k] < Scanned[k + 1]

----------------------------------------------------------------------------
(* C22: the pairwise detector against the vectorized one *)

\* every assignment of the employee has its start and its end, in that order
WellFormed(m) ==
    \A k \in DOMAIN combined_df :
        combined_df[k].Matricula = m =>
            /\ combined_df[k].Inicio # NaT
            /\ combined_df[k].Termino # NaT
            /\ combined_df[k].Inicio <= combined_df[k].Termino

\* detectar_conflitos has a line for the employee
HasLine(m) ==
    \E k \in DOMAIN conflitos_texto : conflitos_texto[k].Nome = NomeOf(m)

\* detect_conflicts_vectorized has an entry for the employee
HasEntry(m) ==
    \E k \in DOMAIN conflict_rows(combined_df) :
        conflict_rows(combined_df)[k].Matricula = m

\* C22: for an employee with well-formed assignments detectar_conflitos
\* emits a line exactly when detect_conflicts_vectorized reports a conflict
\* of that employee
C22_PairwiseAgreesWithVectorized ==
    pc = "legacy_detected" =>
        \A m \in EmployeeIds : WellFormed(m) => (HasLine(m) <=> HasEntry(m))

----------------------------------------------------------------------------
(* C23: the two assignments of a conflict entry *)

\* the row of the table that the entry names as the next one (an activity
\* label names one row of the table handed to the detector on its own)
NextOf(c) == CHOOSE j \in DOMAIN combined_df : combined_df[j].Tipo = c.Next_Tipo

\* C23: every entry of the detector pairs a row with another row of the same
\* employee id
C23_EntryPairsOneEmployee ==
    pc = "detected" =>
        \A k \in DOMAIN conflicts :
            /\ \E j \in DOMAIN combined_df :
                  combined_df[j].Tipo = conflicts[k].Next_Tipo
            /\ NextOf(conflicts[k]) # conflicts[k].idx
            /\ combined_df[NextOf(conflicts[k])].Matricula =
                  conflicts[k].Matricula
            /\ combined_df[NextOf(conflicts[k])].Inicio =
                  conflicts[k].Next_Inicio

\* the last assignment of employee 1 ends after the only assignment of
\* employee 2 starts, and the detector has an entry
C23_Witness ==
    /\ pc = "detected"
    /\ Len(combined_df) = 3
    /\ conflicts # <<>>
    /\ combined_df[3].Matricula = 2
    /\ \A k \in 1 .. 2 : combined_df[k].Matricula = 1
    /\ \A k \in 1 .. 2 : GT(combined_df[k].Termino, combined_df[3].Inicio)

----------------------------------------------------------------------------
(* C24: one more assignment for an employee *)

\* every start and every end of the table is present
AllPresent(t) ==
    \A k \in DOMAIN t : t[k].Inicio # NaT /\ t[k].Termino # NaT

\* the entries of the detector for the employee, and for everybody else
EntriesFoundFor(t, m) ==
    LET his(c) == c.Matricula = m
    IN SelectSeq(conflict_rows(t), his)

EntriesFoundForOthers(t, m) ==
    LET other(c) == c.Matricula # m
    IN SelectSeq(conflict_rows(t), other)

\* C24: with all dates present, one more assignment for an employee leaves
\* the detector with at least as many entries for that employee and with the
\* same entries for the other employees
C24_OneMoreAssignmentKeepsEntries ==
    [][(Len(combined_df') = Len(combined_df) + 1 /\ AllPresent(combined_df'))
        => LET m == combined_df'[Len(combined_df')].Matricula
           IN /\ Len(EntriesFoundFor(combined_df', m)) >=
                    Len(EntriesFoundFor(combined_df, m))
              /\ saida(EntriesFoundForOthers(combined_df', m)) =
                    saida(EntriesFoundForOthers(combined_df, m))]_vars

\* the third assignment of employee 1 was put between two conflicting ones,
\* and the detector has run
C24_Witness ==
    /\ pc = "detected"
    /\ Len(combined_df) = 3
    /\ AllPresent(combined_df)
    /\ \A k \in DOMAIN combined_df : combined_df[k].Matricula = 1
    /\ sort_values(combined_df) = <<1, 3, 2>>
    /\ conflict_rows(SubSeq(combined_df, 1, 2)) # <<>>
    /\ conflicts # <<>>

----------------------------------------------------------------------------
(* C25: the lines of detectar_conflitos *)

\* the lines detectar_conflitos has for the employee
LinesOf(m) ==
    {k \in DOMAIN conflitos_texto : conflitos_texto[k].Nome = NomeOf(m)}

\* the rows i < j of the employee overlap
Overlapping(m, i, j) ==
    /\ i < j
    /\ combined_df[i].Matricula = m
    /\ combined_df[j].Matricula = m
    /\ sobrepoe(combined_df[i], combined_df[j])

\* the line names the rows i and j as its two events
LineNames(k, i, j) ==
    /\ conflitos_texto[k].Conflito[1] = combined_df[i].Tipo
    /\ conflitos_texto[k].Conflito[4] = combined_df[j].Tipo

\* C25: detectar_conflitos has at most one line for an employee, none for an
\* employee with fewer than two assignments, and the line is the one of the
\* first overlapping pair in row order
C25_OneLineForFirstPair ==
    pc = "legacy_detected" =>
        \A m \in EmployeeIds :
            /\ Cardinality(LinesOf(m)) <= 1
            /\ Cardinality(AssignmentsOf(m)) < 2 => LinesOf(m) = {}
            /\ \A k \in LinesOf(m) :
                  \E i, j \in DOMAIN combined_df :
                      /\ LineNames(k, i, j)
                      /\ Overlapping(m, i, j)
                      /\ \A p, q \in DOMAIN combined_df :
                            Overlapping(m, p, q) =>
                                i < p \/ (i = p /\ j <= q)

\* three assignments of employee 1, each overlapping the two others, and
\* one line
C25_Witness ==
    /\ pc = "legacy_detected"
    /\ Len(combined_df) = 3
    /\ \A i, j \in DOMAIN combined_df : i < j => Overlapping(1, i, j)
    /\ Len(conflitos_texto) = 1

----------------------------------------------------------------------------
(* C26: assignments with a missing start or a missing end *)

\* the assignments that have both their dates
Complete(t) ==
    LET dated(r) == r.Inicio # NaT /\ r.Termino # NaT
    IN SelectSeq(t, dated)

\* C26: the first assignment of an entry has its start and its end, the
\* second one has its start; and for every window the occupied ids are the
\* ones of the assignments that have both their dates
C26_MissingDatesStayOut ==
    pc = "detected" =>
        /\ \A k \in DOMAIN conflicts :
              /\ conflicts[k].Inicio # NaT
              /\ conflicts[k].Termino # NaT
              /\ combined_df[NextOf(conflicts[k])].Inicio # NaT
        /\ \A start_date \in Stamps, end_date \in Stamps :
              ocupados_ids(combined_df, start_date, end_date) =
                  ocupados_ids(Complete(combined_df), start_date, end_date)

\* an employee has an assignment without start and one without end, and the
\* one without end is the second assignment of an entry
C26_Witness ==
    /\ pc = "detected"
    /\ \E i, j \in DOMAIN combined_df :
          /\ combined_df[i].Matricula = combined_df[j].Matricula
          /\ combined_df[i].Inicio = NaT
          /\ combined_df[i].Termino # NaT
          /\ combined_df[j].Inicio # NaT
          /\ combined_df[j].Termino = NaT
          /\ \E k \in DOMAIN conflicts : NextOf(conflicts[k]) = j

----------------------------------------------------------------------------
(* C27: the tables of App.run when only the available members are wanted *)

\* App.run is past the filtering step
Filtered == pc \in {"processed", "none_available", "charted", "rendered"}

\* the join of the selected team, before the checkbox is applied
JoinOfTeam ==
    combined_data(equipe_filtered(equipe_df.rows, sel_discs, sel_projs),
                  dfs_eventos)

\* C27: with 'Apenas Disponiveis' checked, no displayed member has an
\* occupied id, every assignment left belongs to a displayed member, and no
\* assignment left intersects the analysis window
C27_OnlyAvailableTablesAgree ==
    (Filtered /\ only_available) =>
        /\ \A k \in DOMAIN unique_members :
              unique_members[k].Matricula \notin
                  ocupados_ids(JoinOfTeam, d_inicio, d_fim)
        /\ \A k \in DOMAIN combined_df :
              /\ \E i \in DOMAIN unique_members :
                    unique_members[i].Matricula = combined_df[k].Matricula
              /\ ~ mask_periodo(combined_df[k], d_inicio, d_fim)

\* the checkbox has removed a member and left an assignment, and the report
\* was rendered
C27_Witness ==
    /\ pc = "rendered"
    /\ only_available
    /\ combined_df # <<>>
    /\ Len(combined_df) < Len(JoinOfTeam)
    /\ Len(unique_members) <
          Len(equipe_filtered(equipe_df.rows, sel_discs, sel_projs))

----------------------------------------------------------------------------
(* C28: the ordered member list and the roster *)

\* the two tables have the same rows, each as often in one as in the other
SameRows(s, t) ==
    /\ Len(s) = Len(t)
    /\ \A k \in DOMAIN s :
          Cardinality({i \in DOMAIN s : s[i] = s[k]}) =
              Cardinality({i \in DOMAIN t : t[i] = s[k]})

\* the roster with its discipline column cast to the ordered categorical
CastRoster ==
    [k \in DOMAIN equipe_df.rows |->
        [equipe_df.rows[k] EXCEPT !.Disciplina =
            IF @ \in {"ELET", "INST", "MEC"} THEN @ ELSE NaN]]

\* C28 as stated: the ordered member list has the rows of the roster, each
\* exactly once
C28_MembersArePermutationOfRoster ==
    pc = "prepared" => SameRows(unique_members, equipe_df.rows)

\* C28: the ordered member list has one row for every roster row and no
\* other row; the rows are those of the roster, except that a discipline
\* that is not ELET, INST or MEC is missing in the list
C28_MembersArePermutationOfCastRoster ==
    pc = "prepared" =>
        /\ SameRows(unique_members, CastRoster)
        /\ SameRows([k \in DOMAIN unique_members |->
                        unique_members[k].Matricula],
                    [k \in DOMAIN equipe_df.rows |->
                        equipe_df.rows[k].Matricula])

\* a roster of three with an employee of discipline 'C' and an employee
\* without discipline, not in the order of the list
C28_Witness ==
    /\ pc = "prepared"
    /\ Len(equipe_df.rows) = 3
    /\ \E k \in DOMAIN equipe_df.rows : equipe_df.rows[k].Disciplina = "C"
    /\ \E k \in DOMAIN equipe_df.rows : equipe_df.rows[k].Disciplina = NaN
    /\ unique_members # CastRoster

====
